---------------------------- MODULE Spec2Model ----------------------------
(***************************************************************************)
(* A model of script.py: the Cisco Umbrella / ServiceNow reconciliation    *)
(* script.  Each function of the script is an operation on the state       *)
(* below; the working directory is the function fs from file names to      *)
(* file contents.                                                          *)
(*                                                                         *)
(* Out of the model: I/O errors while writing a file, the process being    *)
(* killed, cells that pandas reads as numbers, and JSON bodies that are    *)
(* not of the documented shape.                                            *)
(***************************************************************************)
EXTENDS Integers, Sequences, FiniteSets, TLC

VARIABLES
    fs,             \* the working directory: file name -> file content
    pc,             \* position of the running function
    \* ---- list_umbrella_networks
    per_page,       \* parameter per_page
    max_records,    \* parameter max_records
    all_networks,   \* local all_networks
    total_fetched,  \* local total_fetched
    current_page,   \* local current_page
    log,            \* history: every request made, <<page or offset, status>>
    pages,          \* history: the body of every 200 response, in order
    delays,         \* history: number of time.sleep(5) calls
    pauses,         \* history: number of time.sleep(0.5) calls
    \* ---- fetch_top_identities
    retries,        \* parameter retries
    attempt,        \* the for-loop variable attempt (0-based)
    identities_data,\* local identities_data
    offset,         \* local offset
    \* ---- export_to_csv / compare_and_filter_networks / joins
    inactive_networks, \* local inactive_networks of compare_and_filter_networks
    before,         \* history: fs when the operation was called
    arg,            \* history: the argument the operation was called with
    warnings,       \* number of logging.warning calls of export_to_csv
    \* ---- main
    ran,            \* history: the steps main has called, in order
    access_token,   \* local access_token of main
    github_token    \* os.getenv("GITHUB_TOKEN"), "" when it is not set

vars == <<fs, pc, per_page, max_records, all_networks, total_fetched,
          current_page, log, pages, delays, pauses, retries, attempt,
          identities_data, offset, inactive_networks, before, arg, warnings,
          ran, access_token, github_token>>

netVars  == <<per_page, max_records, all_networks, total_fetched, current_page,
              pages, delays, pauses>>
topVars  == <<retries, attempt, identities_data, offset>>
fileVars == <<inactive_networks, before, arg, warnings>>
mainVars == <<ran, access_token, github_token>>

-----------------------------------------------------------------------------
(* Bounds of the model *)

MaxPageLen     == 2   \* longest page a server answers with
MaxPerPage     == 2   \* largest per_page tried
MaxCap         == 5   \* largest max_records tried
MaxRateLimited == 2   \* most 429 answers in one run
MaxRetries     == 3   \* largest retries tried
MaxOffsets     == 2   \* most non-empty identity pages a server holds
MaxRows        == 3   \* most rows of a network list on disk
MaxLabels      == 2   \* most rows of an identity list on disk
MaxJoinRows    == 2   \* most rows of each table the joins read

-----------------------------------------------------------------------------
(* Sequences *)

RECURSIVE Flatten(_)
Flatten(ss) == IF ss = <<>> THEN <<>> ELSE Head(ss) \o Flatten(Tail(ss))

RECURSIVE SumLen(_)
SumLen(ss) == IF ss = <<>> THEN 0 ELSE Len(Head(ss)) + SumLen(Tail(ss))

RECURSIVE SelectSeqBy(_, _)
\* the subsequence of s whose elements are in the set keep
SelectSeqBy(s, keep) ==
    IF s = <<>> THEN <<>>
    ELSE IF Head(s) \in keep THEN <<Head(s)>> \o SelectSeqBy(Tail(s), keep)
         ELSE SelectSeqBy(Tail(s), keep)

SeqsUpTo(S, n) == UNION {[1..k -> S] : k \in 0..n}

Range(s) == {s[i] : i \in 1..Len(s)}

-----------------------------------------------------------------------------
(* JSON objects and dict.get *)

Missing == "<missing>"   \* the key is not in the JSON object

\* dict.get(key, default)
Get(obj, key, default) == IF obj[key] = Missing THEN default ELSE obj[key]

-----------------------------------------------------------------------------
(* Files.  A CSV file is a header line and rows; a row is kept as the     *)
(* mapping from column name to the text of its cell.                       *)

NoFile    == [exists |-> FALSE, header |-> <<>>, rows |-> <<>>]
\* what open(filename, "w") leaves when nothing is written: zero bytes
EmptyFile == [exists |-> TRUE, header |-> <<>>, rows |-> <<>>]

\* csv.DictWriter: writeheader, then one line per dict, the cells in the
\* order of fieldnames
CsvFile(header, dicts) ==
    [exists |-> TRUE, header |-> header,
     rows |-> [i \in 1..Len(dicts) |->
                  [j \in 1..Len(header) |-> dicts[i][header[j]]]]]

\* csv.DictReader: the first line names the columns, every other line is a
\* dict from column name to cell
DictReader(file) ==
    [i \in 1..Len(file.rows) |->
        [c \in {file.header[j] : j \in 1..Len(file.header)} |->
            file.rows[i][CHOOSE j \in 1..Len(file.header) : file.header[j] = c]]]

FileNames == {"umbrella_networks.csv", "top_identities.csv",
              "inactive_networks.csv", "snow_data.csv",
              "Inactive_Network_LSP.csv", "LSP_emails.csv",
              "merged_LSP_data.csv"}

\* the order in which the script inserts keys into its dicts and frames
ColumnOrder == <<"Network Name", "IP Address", "identity_label", "u_marsha",
                 "u_lsp", "LSP", "Email">>

\* list(data[0].keys())
Keys(row) == SelectSeqBy(ColumnOrder, DOMAIN row)

\* export_to_csv(data, filename): the file is opened for writing (created
\* or truncated) before data is looked at
export_to_csv(dir, data, filename) ==
    IF data = <<>> THEN [dir EXCEPT ![filename] = EmptyFile]
    ELSE [dir EXCEPT ![filename] = CsvFile(Keys(data[1]), data)]

\* the logging.warning of export_to_csv
export_warns(data) == IF data = <<>> THEN 1 ELSE 0

-----------------------------------------------------------------------------
(* list_umbrella_networks *)

RawNetworks == {[name |-> "A", ipAddress |-> "10.0.0.1"],
                [name |-> Missing, ipAddress |-> "10.0.0.2"]}

NetworkPages == SeqsUpTo(RawNetworks, MaxPageLen)

\* lines 101-107: one exported row per network of the response
NetworkRow(network) ==
    ("Network Name" :> Get(network, "name", "N/A")) @@
    ("IP Address" :> Get(network, "ipAddress", "N/A"))

\* lines 101-107: the rows of one response
NetworkRows(response_data) ==
    [i \in 1..Len(response_data) |-> NetworkRow(response_data[i])]

NetworksFile == "umbrella_networks.csv"

\* a file with the two columns of a network row
NetworksCsv(rows) == CsvFile(<<"Network Name", "IP Address">>, rows)

\* lines 128-133
ExportNetworks(dir, networks) ==
    IF networks # <<>> THEN export_to_csv(dir, networks, NetworksFile) ELSE dir

\* a variant of line 115: the cap compared with the total before the page
StopsBeforeAppend(fetched, total) ==
    fetched < per_page \/ total - fetched >= max_records

\* line 115, with fetched = len(response_data), total = the new total_fetched
Stops(fetched, total) == fetched < per_page \/ total >= max_records

\* a variant of lines 93-96: the page counter moves on after a 429
RateLimitedAdvances ==
    /\ log' = Append(log, <<current_page, 429>>)
    /\ delays' = delays + 1
    /\ current_page' = current_page + 1
    /\ UNCHANGED <<fs, pc, per_page, max_records, all_networks, total_fetched,
                   pages, pauses>>

\* lines 93-96: status 429
RateLimited ==
    /\ log' = Append(log, <<current_page, 429>>)
    /\ delays' = delays + 1
    /\ UNCHANGED <<fs, pc, per_page, max_records, all_networks, total_fetched,
                   current_page, pages, pauses>>

\* a variant of lines 124-133: the records are dropped on a failure
RequestFailedDiscards ==
    /\ log' = Append(log, <<current_page, 0>>)
    /\ pc' = "done"
    /\ all_networks' = <<>>
    /\ UNCHANGED <<fs, per_page, max_records, total_fetched, current_page,
                   pages, delays, pauses>>

\* lines 124-133: requests.get or raise_for_status raised; status 0 stands
\* for a transport exception or a non-429 error status
RequestFailed ==
    /\ log' = Append(log, <<current_page, 0>>)
    /\ pc' = "done"
    /\ fs' = ExportNetworks(fs, all_networks)
    /\ UNCHANGED <<per_page, max_records, all_networks, total_fetched,
                   current_page, pages, delays, pauses>>

\* lines 98-122 and 128-133: status 200 with body response_data
Page200(response_data) ==
    LET networks == all_networks \o NetworkRows(response_data)
        fetched  == Len(response_data)
        total    == total_fetched + fetched
    IN  /\ log' = Append(log, <<current_page, 200>>)
        /\ pages' = Append(pages, response_data)
        /\ all_networks' = networks
        /\ total_fetched' = total
        /\ IF Stops(fetched, total)
           THEN /\ pc' = "done"
                /\ fs' = ExportNetworks(fs, networks)
                /\ UNCHANGED <<current_page, pauses>>
           ELSE /\ current_page' = current_page + 1
                /\ pauses' = pauses + 1
                /\ UNCHANGED <<fs, pc>>
        /\ UNCHANGED <<per_page, max_records, delays>>

Count(s, status) == Cardinality({i \in 1..Len(s) : s[i][2] = status})

ListNetworksStep ==
    /\ pc = "list_umbrella_networks"
    /\ \/ \E response_data \in NetworkPages : Page200(response_data)
       \/ Count(log, 429) < MaxRateLimited /\ RateLimited
       \/ RequestFailed
    /\ UNCHANGED <<topVars, fileVars, mainVars>>

StaleNetworks == <<("Network Name" :> "Z") @@ ("IP Address" :> "10.9.9.9")>>

\* list_umbrella_networks(access_token, "umbrella_networks.csv", P, M) is
\* called in a directory that may hold an earlier run's network list
InitNet ==
    /\ pc = "list_umbrella_networks"
    /\ per_page \in 1..MaxPerPage
    /\ max_records \in 1..MaxCap
    /\ all_networks = <<>> /\ total_fetched = 0 /\ current_page = 1
    /\ log = <<>> /\ pages = <<>> /\ delays = 0 /\ pauses = 0
    /\ \E old \in {NoFile, CsvFile(Keys(StaleNetworks[1]), StaleNetworks)} :
          fs = [f \in FileNames |-> IF f = NetworksFile THEN old ELSE NoFile]
    /\ retries = 0 /\ attempt = 0 /\ identities_data = <<>> /\ offset = 0
    /\ inactive_networks = <<>>
    /\ before = [f \in FileNames |-> NoFile] /\ arg = <<>> /\ warnings = 0
    /\ ran = <<>> /\ access_token = "" /\ github_token = ""

NextNet == ListNetworksStep

SpecNet == InitNet /\ [][NextNet]_vars

-----------------------------------------------------------------------------
(* fetch_top_identities *)

Limit == 5000   \* "limit": 5000 and offset += 5000

RawIdentities == {[identity |-> [label |-> "A"]],
                  [identity |-> [label |-> Missing]]}

\* the non-empty "data" arrays a server answers with
IdentityPages == SeqsUpTo(RawIdentities, MaxPageLen) \ {<<>>}

TopFile == "top_identities.csv"

\* lines 179-181
IdentityRow(item) == "identity_label" :> Get(item.identity, "label", "N/A")

\* lines 178-181: one row per identity
IdentityRows(data) == [i \in 1..Len(data) |-> IdentityRow(data[i])]

\* lines 170-183: the file is opened only when there is data
WriteIdentities(dir, data) ==
    IF data # <<>>
    THEN [dir EXCEPT ![TopFile] =
              CsvFile(<<"identity_label">>, IdentityRows(data))]
    ELSE dir

\* lines 156-161: status 200 with a non-empty data array
TopPage(data) ==
    /\ log' = Append(log, <<offset, 200, Len(data)>>)
    /\ pages' = Append(pages, data)
    /\ identities_data' = identities_data \o data
    /\ offset' = offset + Limit
    /\ UNCHANGED <<fs, pc, retries, attempt, delays>>

\* lines 156-158, 162-163, 170-184: status 200 with no data ends the inner
\* loop, the file is written and the retry loop is left
TopEmpty ==
    /\ log' = Append(log, <<offset, 200, 0>>)
    /\ fs' = WriteIdentities(fs, identities_data)
    /\ pc' = "done"
    /\ UNCHANGED <<pages, identities_data, offset, retries, attempt, delays>>

\* lines 164-168, 170-184: any other status is logged and ends the inner
\* loop the same way
TopErrorStatus ==
    /\ log' = Append(log, <<offset, 500, 0>>)
    /\ fs' = WriteIdentities(fs, identities_data)
    /\ pc' = "done"
    /\ UNCHANGED <<pages, identities_data, offset, retries, attempt, delays>>

\* a variant of lines 186-192: the next attempt starts again at offset 0
TopExceptionRestarts ==
    /\ log' = Append(log, <<offset, 0, 0>>)
    /\ IF attempt < retries - 1
       THEN /\ attempt' = attempt + 1
            /\ delays' = delays + 1
            /\ offset' = 0
            /\ UNCHANGED pc
       ELSE /\ pc' = "abandoned"
            /\ UNCHANGED <<attempt, delays, offset>>
    /\ UNCHANGED <<fs, pages, identities_data, retries>>

\* lines 186-192: requests.get raised; the for loop goes to the next attempt
\* or, after the last one, ends and the function returns
TopException ==
    /\ log' = Append(log, <<offset, 0, 0>>)
    /\ IF attempt < retries - 1
       THEN /\ attempt' = attempt + 1
            /\ delays' = delays + 1
            /\ UNCHANGED pc
       ELSE /\ pc' = "abandoned"
            /\ UNCHANGED <<attempt, delays>>
    /\ UNCHANGED <<fs, pages, identities_data, offset, retries>>

TopIdentitiesStep ==
    /\ pc = "fetch_top_identities"
    /\ \/ \E data \in IdentityPages : Len(pages) < MaxOffsets /\ TopPage(data)
       \/ TopEmpty
       \/ TopErrorStatus
       \/ TopException
    /\ UNCHANGED <<per_page, max_records, all_networks, total_fetched,
                   current_page, pauses, fileVars, mainVars>>

StaleIdentities == <<"identity_label" :> "Z">>

\* fetch_top_identities(access_token, "top_identities.csv", retries) is
\* called in a directory that may hold an earlier run's identity list
InitTop ==
    /\ pc = "fetch_top_identities"
    /\ retries \in 1..MaxRetries
    /\ attempt = 0 /\ identities_data = <<>> /\ offset = 0
    /\ log = <<>> /\ pages = <<>> /\ delays = 0 /\ pauses = 0
    /\ \E old \in {NoFile, CsvFile(<<"identity_label">>, StaleIdentities)} :
          fs = [f \in FileNames |-> IF f = TopFile THEN old ELSE NoFile]
    /\ per_page = 0 /\ max_records = 0 /\ all_networks = <<>>
    /\ total_fetched = 0 /\ current_page = 0
    /\ inactive_networks = <<>>
    /\ before = [f \in FileNames |-> NoFile] /\ arg = <<>> /\ warnings = 0
    /\ ran = <<>> /\ access_token = "" /\ github_token = ""

NextTop == TopIdentitiesStep

SpecTop == InitTop /\ [][NextTop]_vars

-----------------------------------------------------------------------------
(* export_to_csv called on its own, and compare_and_filter_networks *)

InactiveFile == "inactive_networks.csv"

NetworkNames == {"A", "B", "C", "b"}
Labels       == {"A", "B", "b"}

DiskNetwork(name) == ("Network Name" :> name) @@ ("IP Address" :> "10.0.0.1")
DiskLabel(label)  == "identity_label" :> label

\* the network lists list_umbrella_networks can have written
NetworkLists  == SeqsUpTo({DiskNetwork(n) : n \in NetworkNames}, MaxRows) \ {<<>>}
\* the identity lists fetch_top_identities can have written
IdentityLists == SeqsUpTo({DiskLabel(l) : l \in Labels}, MaxLabels) \ {<<>>}

\* str.lower on the names of the model
Fold(name) == CASE name = "A" -> "a" [] name = "B" -> "b" [] name = "C" -> "c"
                [] OTHER -> name

\* a variant of line 227: the comparison ignores case
IsActiveFolded(name, active_identity_labels) ==
    Fold(name) \in {Fold(l) : l \in active_identity_labels}

\* line 227: row["Network Name"] in active_identity_labels
IsActive(name, active_identity_labels) == name \in active_identity_labels

RECURSIVE InactiveRows(_, _)
\* lines 223-228: the reader's rows, in file order, that are not active
InactiveRows(rows, active_identity_labels) ==
    IF rows = <<>> THEN <<>>
    ELSE (IF IsActive(Head(rows)["Network Name"], active_identity_labels)
          THEN <<>> ELSE <<Head(rows)>>)
         \o InactiveRows(Tail(rows), active_identity_labels)

\* lines 213-235
compare_and_filter_networks ==
    /\ pc = "start"
    /\ fs[NetworksFile].exists /\ fs[TopFile].exists
    /\ LET active_identity_labels ==
               {row["identity_label"] : row \in Range(DictReader(fs[TopFile]))}
           inactive == InactiveRows(DictReader(fs[NetworksFile]),
                                    active_identity_labels)
       IN  /\ inactive_networks' = inactive
           /\ fs' = IF inactive # <<>>
                    THEN export_to_csv(fs, inactive, InactiveFile)
                    ELSE fs
    /\ before' = fs
    /\ pc' = "compare_and_filter_networks returned"
    /\ UNCHANGED <<netVars, topVars, log, arg, warnings, mainVars>>

\* export_to_csv(data, filename) called directly
ExportCall ==
    /\ pc = "start"
    /\ \E data \in SeqsUpTo({DiskNetwork("A"), DiskNetwork("B")}, 1),
          filename \in {InactiveFile, NetworksFile} :
          /\ arg' = <<data, filename>>
          /\ fs' = export_to_csv(fs, data, filename)
          /\ warnings' = warnings + export_warns(data)
    /\ before' = fs
    /\ pc' = "export_to_csv returned"
    /\ UNCHANGED <<netVars, topVars, log, inactive_networks, mainVars>>

StaleInactive == <<DiskNetwork("Z")>>

\* a working directory after list_umbrella_networks and
\* fetch_top_identities, which may hold an earlier run's inactive list
InitFiles ==
    /\ pc = "start"
    /\ \E networks \in NetworkLists, identities \in IdentityLists,
          old \in {NoFile, NetworksCsv(StaleInactive)} :
          fs = [f \in FileNames |->
                   IF f = NetworksFile THEN NetworksCsv(networks)
                   ELSE IF f = TopFile
                        THEN CsvFile(<<"identity_label">>, identities)
                   ELSE IF f = InactiveFile THEN old
                   ELSE NoFile]
    /\ per_page = 0 /\ max_records = 0 /\ all_networks = <<>>
    /\ total_fetched = 0 /\ current_page = 0 /\ log = <<>> /\ pages = <<>>
    /\ delays = 0 /\ pauses = 0
    /\ retries = 0 /\ attempt = 0 /\ identities_data = <<>> /\ offset = 0
    /\ inactive_networks = <<>>
    /\ before = [f \in FileNames |-> NoFile] /\ arg = <<>> /\ warnings = 0
    /\ ran = <<>> /\ access_token = "" /\ github_token = ""

NextFiles == compare_and_filter_networks \/ ExportCall

SpecFiles == InitFiles /\ [][NextFiles]_vars

-----------------------------------------------------------------------------
(* pandas: a frame is its column names and its rows, a row a mapping from  *)
(* column name to a cell; NaN is the missing cell.                         *)

NaN == "<NaN>"

\* the texts pd.read_csv reads as NaN (its default na_values)
NaValues == {"", "#N/A", "#N/A N/A", "#NA", "-1.#IND", "-1.#QNAN", "-NaN",
             "-nan", "1.#IND", "1.#QNAN", "<NA>", "N/A", "NA", "NULL", "NaN",
             "None", "n/a", "nan", "null"}

\* one cell as pd.read_csv reads it; the cells of the model are not numbers
ParseCell(text) == IF text \in NaValues THEN NaN ELSE text

\* pd.read_csv(name)
read_csv(file) ==
    [columns |-> file.header,
     rows |-> [i \in 1..Len(file.rows) |->
                  [c \in DOMAIN DictReader(file)[i] |->
                      ParseCell(DictReader(file)[i][c])]]]

\* df.to_csv(name, index=False): NaN is written as the empty text
to_csv(df) ==
    CsvFile(df.columns,
            [i \in 1..Len(df.rows) |->
                [c \in DOMAIN df.rows[i] |->
                    IF df.rows[i][c] = NaN THEN "" ELSE df.rows[i][c]]])

AllNaN(columns) == [c \in Range(columns) |-> NaN]

\* the rows of `right` whose key equals the key of row l.  pd.merge puts
\* the null keys of both sides in one group, so a NaN key matches a NaN key
Matches(l, right, left_on, right_on) ==
    SelectSeq(right.rows, LAMBDA r : r[right_on] = l[left_on])

\* the rows pd.merge makes of one left row
JoinLeftRow(l, right, left_on, right_on) ==
    LET m == Matches(l, right, left_on, right_on)
    IN  IF m = <<>> THEN <<l @@ AllNaN(right.columns)>>
        ELSE [i \in 1..Len(m) |-> l @@ m[i]]

\* pd.merge(left, right, left_on=, right_on=, how="left")
merge_left(left, right, left_on, right_on) ==
    [columns |-> left.columns \o right.columns,
     rows |-> Flatten([i \in 1..Len(left.rows) |->
                          JoinLeftRow(left.rows[i], right, left_on, right_on)])]

\* the join keys of the model in lexicographic order
KeyOrder == <<"L1", "L2", "nan">>

\* the rows of an outer merge for one key: the left rows with that key,
\* each with its matches, or the right rows alone when no left row has it
OuterRowsOfKey(k, left, right, left_on, right_on) ==
    LET ls == SelectSeq(left.rows, LAMBDA l : l[left_on] = k)
        rs == SelectSeq(right.rows, LAMBDA r : r[right_on] = k)
    IN  IF ls # <<>>
        THEN Flatten([i \in 1..Len(ls) |->
                         JoinLeftRow(ls[i], right, left_on, right_on)])
        ELSE [i \in 1..Len(rs) |-> AllNaN(left.columns) @@ rs[i]]

\* pd.merge(left, right, left_on=, right_on=, how="outer"): the keys of
\* both sides, sorted
merge_outer(left, right, left_on, right_on) ==
    [columns |-> left.columns \o right.columns,
     rows |-> Flatten([n \in 1..Len(KeyOrder) |->
                 OuterRowsOfKey(KeyOrder[n], left, right, left_on, right_on)])]

\* df[column].astype(str)
astype_str(df, column) ==
    [df EXCEPT !.rows = [i \in 1..Len(df.rows) |->
        [df.rows[i] EXCEPT ![column] = IF @ = NaN THEN "nan" ELSE @]]]

\* df.drop(column, axis=1)
drop_column(df, column) ==
    [columns |-> SelectSeqBy(df.columns, Range(df.columns) \ {column}),
     rows |-> [i \in 1..Len(df.rows) |->
                  [c \in DOMAIN df.rows[i] \ {column} |-> df.rows[i][c]]]]

-----------------------------------------------------------------------------
(* fetch_snow_data, merge_and_create_lsp, merge_and_clean_data *)

SnowFile    == "snow_data.csv"
LspFile     == "Inactive_Network_LSP.csv"
EmailsFile  == "LSP_emails.csv"
MergedFile  == "merged_LSP_data.csv"

\* the rows of the "result" array of the ServiceNow answer
RawLocations == {("u_marsha" :> m) @@ ("u_lsp" :> l) :
                    m \in {"A", "NA", ""}, l \in {"L1", "Other"}}

\* lines 250-258: the two columns, without the rows that have an empty cell
\* and without the rows of the category "Other"
SnowFrame(result) ==
    [columns |-> <<"u_marsha", "u_lsp">>,
     rows |-> SelectSeq(result,
                  LAMBDA row : /\ row["u_marsha"] # "" /\ row["u_lsp"] # ""
                               /\ row["u_lsp"] # "Other")]

\* lines 238-263: ok is FALSE when requests.get or raise_for_status raised
fetch_snow_data(ok, result) ==
    /\ pc = "start"
    /\ fs' = IF ok THEN [fs EXCEPT ![SnowFile] = to_csv(SnowFrame(result))]
             ELSE fs
    /\ before' = fs
    /\ arg' = IF ok THEN result ELSE <<>>
    /\ pc' = "fetch_snow_data returned"
    /\ UNCHANGED <<netVars, topVars, log, inactive_networks, warnings, mainVars>>

\* a column read by pd.read_csv is float64 when all its cells are NaN and
\* object when it has a text cell or no cell at all
IsFloat(df, column) ==
    df.rows # <<>> /\ \A i \in 1..Len(df.rows) : df.rows[i][column] = NaN

\* pd.merge raises ValueError for a float64 key against an object key
DtypeClash(left, right, left_on, right_on) ==
    IsFloat(left, left_on) # IsFloat(right, right_on)

\* lines 268-281
LspFrame(dir) ==
    LET merged == merge_left(read_csv(dir[InactiveFile]),
                             read_csv(dir[SnowFile]),
                             "Network Name", "u_marsha")
    IN  [merged EXCEPT
            !.rows = SelectSeq(@, LAMBDA row : row["u_lsp"] # NaN)]

\* lines 266-289; pd.read_csv raises when a file is not there, pd.merge
\* when the dtypes of the keys clash
merge_and_create_lsp ==
    /\ pc = "fetch_snow_data returned"
    /\ IF /\ fs[InactiveFile].exists /\ fs[SnowFile].exists
          /\ ~DtypeClash(read_csv(fs[InactiveFile]), read_csv(fs[SnowFile]),
                         "Network Name", "u_marsha")
       THEN /\ fs' = [fs EXCEPT ![LspFile] = to_csv(LspFrame(fs))]
            /\ pc' = "merge_and_create_lsp returned"
       ELSE /\ pc' = "merge_and_create_lsp raised"
            /\ UNCHANGED fs
    /\ UNCHANGED <<netVars, topVars, log, fileVars, mainVars>>

\* lines 387-404: a column that repeats another one is dropped
DropRepeated(df) ==
    LET d1 == IF \A i \in 1..Len(df.rows) :
                    df.rows[i]["u_marsha"] = df.rows[i]["Network Name"]
              THEN drop_column(df, "u_marsha") ELSE df
    IN  IF \A i \in 1..Len(d1.rows) :
              /\ d1.rows[i]["u_lsp"] # NaN /\ d1.rows[i]["LSP"] # NaN
              /\ d1.rows[i]["u_lsp"] = d1.rows[i]["LSP"]
        THEN drop_column(d1, "u_lsp") ELSE d1

\* lines 359-404
MergedFrame(dir) ==
    LET merged_data == merge_outer(astype_str(read_csv(dir[LspFile]), "u_lsp"),
                                   astype_str(read_csv(dir[EmailsFile]), "LSP"),
                                   "u_lsp", "LSP")
    IN  DropRepeated(
            [merged_data EXCEPT
                !.rows = SelectSeq(@, LAMBDA row :
                                          \A c \in DOMAIN row : row[c] # NaN)])

\* lines 357-412
merge_and_clean_data ==
    /\ pc = "merge_and_create_lsp returned"
    /\ fs[EmailsFile].exists
    /\ fs' = [fs EXCEPT ![MergedFile] = to_csv(MergedFrame(fs))]
    /\ pc' = "merge_and_clean_data returned"
    /\ UNCHANGED <<netVars, topVars, log, fileVars, mainVars>>

\* a network without a name is exported under the name N/A (line 104)
InactiveLists ==
    SeqsUpTo({DiskNetwork(n) : n \in {"A", "B", "N/A"}}, MaxJoinRows) \ {<<>>}

Contact(lsp) == ("LSP" :> lsp) @@ ("Email" :> "e@x.com")
ContactLists == SeqsUpTo({Contact("L1"), Contact("L2")}, MaxJoinRows)

StaleSnow == <<("u_marsha" :> "B") @@ ("u_lsp" :> "L2")>>

\* a working directory after compare_and_filter_networks, with the contact
\* file in place; it may hold an earlier run's snow_data.csv
InitJoin ==
    /\ pc = "start"
    /\ \E inactive \in InactiveLists, contacts \in ContactLists,
          old \in {NoFile, CsvFile(<<"u_marsha", "u_lsp">>, StaleSnow)} :
          fs = [f \in FileNames |->
                   IF f = InactiveFile THEN NetworksCsv(inactive)
                   ELSE IF f = EmailsFile
                        THEN CsvFile(<<"LSP", "Email">>, contacts)
                   ELSE IF f = SnowFile THEN old
                   ELSE NoFile]
    /\ per_page = 0 /\ max_records = 0 /\ all_networks = <<>>
    /\ total_fetched = 0 /\ current_page = 0 /\ log = <<>> /\ pages = <<>>
    /\ delays = 0 /\ pauses = 0
    /\ retries = 0 /\ attempt = 0 /\ identities_data = <<>> /\ offset = 0
    /\ inactive_networks = <<>>
    /\ before = [f \in FileNames |-> NoFile] /\ arg = <<>> /\ warnings = 0
    /\ ran = <<>> /\ access_token = "" /\ github_token = ""

NextJoin ==
    \/ \E result \in SeqsUpTo(RawLocations, MaxJoinRows) \ {<<>>} :
          fetch_snow_data(TRUE, result)
    \/ fetch_snow_data(FALSE, <<>>)
    \/ merge_and_create_lsp
    \/ merge_and_clean_data

SpecJoin == InitJoin /\ [][NextJoin]_vars

-----------------------------------------------------------------------------
(* main, get_umbrella_access_token, download_lsp_emails *)

\* lines 53-73, called at line 421: token is the "access_token" of the
\* answer, "" when the answer has none; ok is FALSE when the request raised.
\* Without a token the process exits.
get_umbrella_access_token(ok, token) ==
    /\ pc = "main"
    /\ ran' = Append(ran, "get_umbrella_access_token")
    /\ IF ok /\ token # ""
       THEN access_token' = token /\ pc' = "authenticated"
       ELSE pc' = "exited" /\ UNCHANGED access_token
    /\ UNCHANGED <<fs, netVars, topVars, log, fileVars, github_token>>

\* lines 313-354, called at line 439: without GITHUB_TOKEN the function
\* raises; a failed request is printed and nothing is written; otherwise
\* the body of the answer is written to LSP_emails.csv
download_lsp_emails(ok, content) ==
    /\ pc = "authenticated"
    /\ ran' = Append(ran, "download_lsp_emails")
    /\ IF github_token = ""
       THEN pc' = "raised" /\ UNCHANGED fs
       ELSE /\ pc' = "downloaded"
            /\ fs' = IF ok THEN [fs EXCEPT ![EmailsFile] = content] ELSE fs
    /\ UNCHANGED <<netVars, topVars, log, fileVars, access_token, github_token>>

\* line 445
main_returns ==
    /\ pc = "downloaded"
    /\ pc' = "main returned"
    /\ UNCHANGED <<fs, netVars, topVars, log, fileVars, mainVars>>

ContactFiles == {CsvFile(<<"LSP", "Email">>, contacts) : contacts \in ContactLists}

InitMain ==
    /\ pc = "main"
    /\ ran = <<>> /\ access_token = ""
    /\ github_token \in {"", "ghp"}
    /\ \E old \in {NoFile} \cup ContactFiles :
          fs = [f \in FileNames |-> IF f = EmailsFile THEN old ELSE NoFile]
    /\ per_page = 0 /\ max_records = 0 /\ all_networks = <<>>
    /\ total_fetched = 0 /\ current_page = 0 /\ log = <<>> /\ pages = <<>>
    /\ delays = 0 /\ pauses = 0
    /\ retries = 0 /\ attempt = 0 /\ identities_data = <<>> /\ offset = 0
    /\ inactive_networks = <<>>
    /\ before = [f \in FileNames |-> NoFile] /\ arg = <<>> /\ warnings = 0

NextMain ==
    \/ \E token \in {"", "t1", "t2"} : get_umbrella_access_token(TRUE, token)
    \/ get_umbrella_access_token(FALSE, "")
    \/ \E content \in ContactFiles : download_lsp_emails(TRUE, content)
    \/ download_lsp_emails(FALSE, NoFile)
    \/ main_returns

SpecMain == InitMain /\ [][NextMain]_vars

-----------------------------------------------------------------------------
(* Claims about list_umbrella_networks *)

Running == pc = "list_umbrella_networks"
Failed  == Count(log, 0) > 0

\* the requests answered with `status`, in the order they were made
Answered(status) == SelectSeq(log, LAMBDA e : e[2] = status)

\* the claim's stop rule, on the pages received: page i is short or brings
\* the running total to the cap
StopsAfter(i) ==
    Len(pages[i]) < per_page \/ SumLen(SubSeq(pages, 1, i)) >= max_records

\* the rows of every page received, in order
RowsReceived == NetworkRows(Flatten(pages))

\* C1: as long as every answer is a 200 (429s aside), the pages answered
\* are 1, 2, 3, ... in order, the fetcher goes on after every page that is
\* full and leaves the total under the cap, stops right after the first page
\* that is short or reaches the cap, and exports the concatenation of the
\* pages it received.
C1_Pagination ==
    ~Failed =>
        /\ Len(Answered(200)) = Len(pages)
        /\ \A i \in 1..Len(pages) : Answered(200)[i][1] = i
        /\ \A i \in 1..(Len(pages) - 1) : ~StopsAfter(i)
        /\ Running => /\ current_page = Len(pages) + 1
                      /\ Len(pages) >= 1 => ~StopsAfter(Len(pages))
        /\ ~Running => /\ Len(pages) >= 1
                       /\ StopsAfter(Len(pages))
                       /\ RowsReceived # <<>> =>
                              fs[NetworksFile] = NetworksCsv(RowsReceived)

\* pages of sizes [2,2,1] with page size 2: 5 records in 3 calls (the
\* spec's [100,100,47] scaled down)
C1_Witness ==
    /\ ~Running /\ ~Failed /\ per_page = 2 /\ Len(log) = 3
    /\ Len(pages) = 3 /\ Len(pages[1]) = 2 /\ Len(pages[2]) = 2
    /\ Len(pages[3]) = 1 /\ Len(fs[NetworksFile].rows) = 5

\* page size 2 with cap 3: two full pages, 4 records in 2 calls (the spec's
\* P=100, M=150 scaled down)
C1_CapWitness ==
    /\ ~Running /\ ~Failed /\ per_page = 2 /\ max_records = 3
    /\ Len(log) = 2 /\ Len(pages) = 2 /\ Len(pages[2]) = 2
    /\ Len(fs[NetworksFile].rows) = 4

\* C2: a 429 is followed by one delay and a request for the same page; it
\* changes neither the page counter, the total nor the records, and does not
\* end the fetch; the records are those of the 200 answers only.
C2_RateLimitRetry ==
    /\ delays = Count(log, 429)
    /\ \A i \in 1..Len(log) :
          log[i][2] = 429 =>
              /\ i < Len(log) => log[i + 1][1] = log[i][1]
              /\ i = Len(log) => Running /\ current_page = log[i][1]
    /\ all_networks = RowsReceived
    /\ total_fetched = Len(RowsReceived)
    /\ Len(log) = Len(pages) + delays + Count(log, 0)

\* page 1 answered 429 twice and then 200: 3 calls, 2 delays
C2_Witness ==
    /\ Len(log) = 3 /\ delays = 2
    /\ log[1] = <<1, 429>> /\ log[2] = <<1, 429>> /\ log[3] = <<1, 200>>
    /\ Len(pages) = 1 /\ pages[1] # <<>> /\ all_networks = RowsReceived

\* C3: after a failure other than 429 no further request is made, and when
\* records were accumulated the output file holds exactly them.
C3_PartialExport ==
    \A i \in 1..Len(log) :
        log[i][2] = 0 =>
            /\ i = Len(log)
            /\ ~Running
            /\ Len(Answered(200)) = Len(pages)
            /\ RowsReceived # <<>> =>
                   fs[NetworksFile] = NetworksCsv(RowsReceived)

\* page 1 fetched, page 2 fails: the rows of page 1 are in the file
C3_Witness ==
    /\ Failed /\ Len(pages) = 1 /\ Len(pages[1]) = 2
    /\ fs[NetworksFile] = NetworksCsv(RowsReceived)

-----------------------------------------------------------------------------
(* Claims about fetch_top_identities *)

Abandoned == pc = "abandoned"

\* what holds of the retry budget: the attempts started are 0..attempt, at
\* most `retries` of them; one more is started for each transport exception
\* but the last and for nothing else; an empty 200 page is the last request
\* and ends the call; the call is abandoned exactly when the retries-th
\* exception is raised
C4_Attempts ==
    /\ attempt + 1 <= retries
    /\ attempt = Count(log, 0) - (IF Abandoned THEN 1 ELSE 0)
    /\ \A i \in 1..Len(log) :
          log[i][2] = 200 /\ log[i][3] = 0 => i = Len(log) /\ pc = "done"
    /\ Abandoned <=> Count(log, 0) = retries

\* the abandoned call leaves the partial data it collected as its result:
\* the output file holds the identities fetched before the last exception
C4_AbandonKeepsData ==
    Abandoned /\ identities_data # <<>> =>
        fs[TopFile] = CsvFile(<<"identity_label">>,
                              IdentityRows(identities_data))

\* C4: at most `retries` attempts in one call, a new one only after a
\* transport exception, an empty page ends the call, and after the last
\* failed attempt the call is abandoned with the partial data collected.
C4_BoundedRetry == C4_Attempts /\ C4_AbandonKeepsData

\* C10: the accumulated list is the concatenation of the non-empty pages
\* answered at offsets 0, 5000, ..., offset - 5000, each once and in order,
\* and the request after a transport exception is for the same offset.
C10_NoLossNoDuplicate ==
    LET ok == SelectSeq(log, LAMBDA e : e[2] = 200 /\ e[3] > 0)
    IN  /\ identities_data = Flatten(pages)
        /\ offset = Limit * Len(pages)
        /\ Len(ok) = Len(pages)
        /\ \A i \in 1..Len(ok) :
              ok[i][1] = Limit * (i - 1) /\ ok[i][3] = Len(pages[i])
        /\ \A i \in 1..(Len(log) - 1) :
              log[i][2] = 0 => log[i + 1][1] = log[i][1]

\* a page at offset 0, an exception at offset 5000, then the page at 5000
C10_Witness ==
    /\ Len(log) = 3 /\ log[1][2] = 200 /\ log[2] = <<Limit, 0, 0>>
    /\ log[3][1] = Limit /\ log[3][2] = 200 /\ log[3][3] > 0
    /\ Len(pages) = 2 /\ identities_data = pages[1] \o pages[2]

-----------------------------------------------------------------------------
(* Claims about export_to_csv and compare_and_filter_networks *)

Compared == pc = "compare_and_filter_networks returned"
Exported == pc = "export_to_csv returned"

\* the rows of the network list that equal no identity label, in list order
Difference(dir) ==
    SelectSeq(DictReader(dir[NetworksFile]),
              LAMBDA row : \A l \in Range(DictReader(dir[TopFile])) :
                               row["Network Name"] # l["identity_label"])

\* C5: the inactive list is exactly the rows of the network list whose name
\* equals no identity label, compared as exact strings, in list order.
C5_SetDifference == Compared => inactive_networks = Difference(before)

\* networks [A,B,C] with labels {B} give [A,C]; and a label b does not
\* make network B active
C5_Witness ==
    /\ Compared
    /\ \/ /\ DictReader(before[NetworksFile])
                = <<DiskNetwork("A"), DiskNetwork("B"), DiskNetwork("C")>>
          /\ DictReader(before[TopFile]) = <<DiskLabel("B")>>
          /\ inactive_networks = <<DiskNetwork("A"), DiskNetwork("C")>>
       \/ /\ DictReader(before[TopFile]) = <<DiskLabel("b")>>
          /\ DiskNetwork("B") \in Range(inactive_networks)

\* C6: export_to_csv with an empty sequence writes nothing: the directory is
\* as it was before the call, and one warning is logged.
C6_EmptyExportWritesNothing ==
    Exported /\ arg[1] = <<>> => fs = before /\ warnings = 1

\* what a file holds for a reader; an absent file holds nothing
FileRows(file) == IF file.exists THEN DictReader(file) ELSE <<>>

\* C8: when compare_and_filter_networks has run, inactive_networks.csv holds
\* the difference of the network list and the identity labels, whatever it
\* held before.
C8_InactiveFileIsDifference ==
    Compared => FileRows(fs[InactiveFile]) = Difference(fs)

-----------------------------------------------------------------------------
(* Claims about the joins *)

\* a report row is the row of an inactive network whose name is the
\* u_marsha of a ticketing row that has a u_lsp
HasTicket(row) ==
    \E n \in Range(DictReader(fs[InactiveFile])),
       t \in Range(DictReader(fs[SnowFile])) :
        /\ ParseCell(row["Network Name"]) = ParseCell(n["Network Name"])
        /\ row["IP Address"] = n["IP Address"]
        /\ n["Network Name"] = t["u_marsha"]
        /\ t["u_lsp"] # ""

\* C7: every row of Inactive_Network_LSP.csv and of merged_LSP_data.csv
\* belongs to an inactive network that has a matching ticketing row; with
\* no ticketing rows both reports are empty.
C7_ReportsOnlyMatched ==
    /\ pc \in {"merge_and_create_lsp returned", "merge_and_clean_data returned"}
          => /\ \A row \in Range(DictReader(fs[LspFile])) : HasTicket(row)
             /\ fs[SnowFile].rows = <<>> => fs[LspFile].rows = <<>>
    /\ pc = "merge_and_clean_data returned"
          => /\ \A row \in Range(DictReader(fs[MergedFile])) : HasTicket(row)
             /\ fs[SnowFile].rows = <<>> => fs[MergedFile].rows = <<>>

\* the part of C7 about the final report alone, which holds: dropna removes
\* the rows whose network name was read as NaN
C7_FinalReportOnlyMatched ==
    pc = "merge_and_clean_data returned"
        => \A row \in Range(DictReader(fs[MergedFile])) : HasTicket(row)

-----------------------------------------------------------------------------
(* Claims about main *)

\* the steps of the pipeline, by the functions that do them; the export is
\* the to_csv that ends merge_and_clean_data
PipelineSteps == <<"get_umbrella_access_token", "list_umbrella_networks",
                   "fetch_top_identities", "fetch_snow_data",
                   "compare_and_filter_networks", "merge_and_create_lsp",
                   "download_lsp_emails", "merge_and_clean_data">>

\* what holds of main: authentication is called first, and nothing is
\* called after it unless it returned a token
C9_NothingWithoutToken ==
    /\ ran # <<>> => ran[1] = "get_umbrella_access_token"
    /\ Len(ran) > 1 => access_token # ""

\* C9: a run of main calls the steps of the pipeline in their fixed order,
\* each exactly once and none without a token: the steps called so far are
\* a prefix of the pipeline, and all of it when main returns.
C9_PipelineOrder ==
    /\ C9_NothingWithoutToken
    /\ Len(ran) <= Len(PipelineSteps)
    /\ ran = SubSeq(PipelineSteps, 1, Len(ran))
    /\ pc = "main returned" => ran = PipelineSteps

=============================================================================
